---- MODULE Spec2Model ----
(***************************************************************************)
(* Model of aegis/database.py: the per-thread connection registry (db(),   *)
(* PostgresConnection.connect, MysqlConnection.connect) and the two        *)
(* backend connection classes (reconnect, _ensure_connected, _execute,     *)
(* the statement methods and executemany).                                 *)
(*                                                                         *)
(* Connection objects are numbered 1..MaxConns in order of construction;   *)
(* the driver handle held in _db is 0 for None and otherwise the ordinal   *)
(* of the physical connection this object has opened (each successful      *)
(* psycopg2.connect / MySQLdb.connect yields a handle never seen before).  *)
(* Two specifications share the state: SpecReg runs the registry under     *)
(* concurrent threads, SpecConn runs the operations of connection objects  *)
(* as time passes.                                                         *)
(***************************************************************************)
EXTENDS Integers, FiniteSets, Sequences, TLC

\* ---------------------------------------------------------------- bounds
NThreads == 2        \* thread idents, each borne by one thread at a time
MaxConns == 2        \* connection objects ever constructed (SpecReg)
MaxOpen == 3         \* physical connections one object may open
MaxTime == 4         \* the clock runs 0..MaxTime
MaxDepth == 3        \* nesting of MysqlConnection.reconnect that is followed
MaxRows == 2         \* rows a statement yields or affects
MaxLedger == 3       \* rows the sql_diff table holds
MaxLedgerTime == 1   \* the clock runs 0..MaxLedgerTime while the ledger is used
MaxColumns == 2      \* columns of a changeset
MaxConnectTime == 2  \* clock ticks one MySQLdb.connect may take

\* max_idle_time (7 * 3600 s in the source), in clock ticks
max_idle_time == 2

\* A thread is named by its ident.  The interpreter hands the ident of a
\* thread that ended to a thread started later, so the thread that starts
\* with ident t after another ended is a new thread with a fresh
\* threading.local and the old ident.
Threads == 1..NThreads
ConnIds == 1..MaxConns

\* options.pg_database and options.mysql_schema; NoSchema is use_schema=None
pg_database == "pgdb"
mysql_schema == "mydb"
NoSchema == "None"
Schemas == {pg_database, mysql_schema}
SchemaArgs == Schemas \cup {NoSchema}
Kinds == {"pg", "my"}

\* what the driver does with one statement: it runs, it fails with an
\* OperationalError, or it fails with another database error
Outcomes == {"ok", "operr", "dberr"}
\* the init command of MysqlConnection.reconnect runs or loses the connection
InitOutcomes == {"ok", "operr"}

\* query, get, execute, execute_rowcount and execute_lastrowid all run
\* _cursor() and then _execute() in a try/finally that closes the cursor
StatementOps == {"query", "get", "execute", "execute_rowcount", "execute_lastrowid"}

VARIABLES
  pgsql_available,          \* module flag: psycopg2 imported
  mysql_available,          \* module flag: MySQLdb imported
  live,                     \* live[t]: a thread with ident t is running
  databases,                \* dbconns.databases of each thread (thread-local)
  PostgresConnection_threads, \* PostgresConnection.threads[ident][pg_database]
  MysqlConnection_threads,  \* MysqlConnection.threads[ident][schema@host]
  conns,                    \* conns[c]: the fields of connection object c
  nextConn,                 \* the next connection object to be constructed
  now,                      \* time.time()
  last_op_time,             \* last_op_time[c]: when c last ran a statement (or was made)
  held,                     \* held[t]: objects non-forced lookups gave thread t
  first,                    \* first[t][s]: what t's first lookup of s returned
  ret,                      \* the call that returned last, and its outcome
  cursors,                  \* cursors[c]: cursors of object c opened and not closed
  suspended,                \* suspended[c]: rows left in c's iter() generator, -1: none
  call,                     \* function, input and value of the call that returned last
  ledger,                   \* ledger[k]: the sql_diff table in the database of backend k
  max_idle_time_of          \* max_idle_time_of[c]: self.max_idle_time of object c

regvars == <<databases, PostgresConnection_threads, MysqlConnection_threads>>
cfgvars == <<pgsql_available, mysql_available>>
vars == <<pgsql_available, mysql_available, live, databases,
          PostgresConnection_threads, MysqlConnection_threads,
          conns, nextConn, now, last_op_time, held, first, ret,
          cursors, suspended, call, ledger, max_idle_time_of>>
\* what the calls above the connection classes add to the state
appvars == <<suspended, call, ledger, max_idle_time_of>>

\* ------------------------------------------------------ connection objects
\* an object not yet constructed
NoConn == [kind |-> "none", _db |-> 0, _last_use_time |-> 0,
           autocommit |-> FALSE, txn |-> "none", opened |-> 0]

\* txn is the transaction state of the handle: "none" (nothing open),
\* "single" (opened by a non-batch statement), "batch" (opened by
\* executemany), "aborted" (a statement failed inside it).

\* cursor.execute / cursor.executemany on the handle of s with outcome o,
\* by a statement of the given starter kind.  With autocommit the server
\* commits or undoes each statement by itself; without it the first
\* statement opens a transaction and a failing statement aborts it.  A
\* statement sent into an aborted transaction fails.
DriverOutcome(s, o) == IF s.txn = "aborted" /\ o = "ok" THEN "dberr" ELSE o

DriverExecute(s, o, starter) ==
  IF s.autocommit \/ o = "operr" THEN s
  ELSE IF o = "ok"
       THEN [s EXCEPT !.txn = IF s.txn = "none" THEN starter ELSE s.txn]
       ELSE [s EXCEPT !.txn = "aborted"]

DriverCommit(s) == [s EXCEPT !.txn = "none"]
DriverRollback(s) == [s EXCEPT !.txn = "none"]
\* handle.close(): whatever was not committed is gone
DriverClose(s) == [s EXCEPT !.txn = "none"]

\* close(), the same in both classes
close(s) == IF s._db # 0 THEN [DriverClose(s) EXCEPT !._db = 0] ELSE s

\* the driver's connect() succeeded on object s: a handle never seen before
Connected(s, ac) ==
  [s EXCEPT !._db = s.opened + 1, !.opened = s.opened + 1,
            !.autocommit = ac, !.txn = "none"]

\* Results of the methods below are records
\*   s         the object's fields afterwards
\*   raised    "none", or the error that left the method
\*   connects  physical connection attempts made
\*   submitted how many times the caller's statement reached the driver
\*   used      the handle the caller's statement ran on (0: none)
Result(s, raised, connects, submitted, used) ==
  [s |-> s, raised |-> raised, connects |-> connects,
   submitted |-> submitted, used |-> used]

\* ------------------------------------------------------ PostgresConnection
\* reconnect(): close(), then psycopg2.connect, which raises when the
\* backend is unreachable (u false) and leaves _db None
Pg_reconnect(s, u) ==
  LET c == close(s) IN
  IF u THEN Result(Connected(c, FALSE), "none", 1, 0, 0)
  ELSE Result(c, "operr", 1, 0, 0)

\* _ensure_connected() at time t
Pg_ensure_connected(s, t, u) ==
  IF s._db = 0 \/ t - s._last_use_time > max_idle_time
  THEN LET r == Pg_reconnect(s, u) IN
       IF r.raised # "none" THEN r
       ELSE [r EXCEPT !.s._last_use_time = t]
  ELSE Result([s EXCEPT !._last_use_time = t], "none", 0, 0, 0)

\* rollback()
Pg_rollback(s) == IF s._db # 0 THEN DriverRollback(s) ELSE s

\* _execute() that leaves the handle open on an OperationalError
Pg_execute_noclose(s, o) ==
  LET e == DriverOutcome(s, o)
      x == DriverExecute(s, e, "single") IN
  CASE e = "ok" -> Result(DriverCommit(x), "none", 0, 1, s._db)
    [] e = "operr" -> Result(x, "operr", 0, 1, s._db)
    [] e = "dberr" -> Result(Pg_rollback(x), "dberr", 0, 1, s._db)

\* _execute() that does not commit
Pg_execute_nocommit(s, o) ==
  LET e == DriverOutcome(s, o)
      x == DriverExecute(s, e, "single") IN
  CASE e = "ok" -> Result(x, "none", 0, 1, s._db)
    [] e = "operr" -> Result(close(x), "operr", 0, 1, s._db)
    [] e = "dberr" -> Result(Pg_rollback(x), "dberr", 0, 1, s._db)

\* _execute(cursor, query, parameters) on the open handle of s
Pg_execute(s, o) ==
  LET e == DriverOutcome(s, o)
      x == DriverExecute(s, e, "single") IN
  CASE e = "ok" -> Result(DriverCommit(x), "none", 0, 1, s._db)
    [] e = "operr" -> Result(close(x), "operr", 0, 1, s._db)
    [] e = "dberr" -> Result(Pg_rollback(x), "dberr", 0, 1, s._db)

\* query / get / execute / execute_rowcount / execute_lastrowid:
\* _cursor(), then _execute()
Pg_statement(s, t, u, o) ==
  LET r == Pg_ensure_connected(s, t, u) IN
  IF r.raised # "none" THEN r
  ELSE [Pg_execute(r.s, o) EXCEPT !.connects = r.connects]

\* executemany / executemany_lastrowid / executemany_rowcount: _cursor(),
\* then cursor.executemany with no commit and no except clause
Pg_executemany(s, t, u, o) ==
  LET r == Pg_ensure_connected(s, t, u) IN
  IF r.raised # "none" THEN r
  ELSE LET e == DriverOutcome(r.s, o) IN
       Result(DriverExecute(r.s, e, "batch"),
              IF e = "ok" THEN "none" ELSE e, r.connects, 1, r.s._db)

\* __init__: _db = None, _last_use_time = time.time(), then reconnect()
\* with every exception logged and dropped
PostgresConnection_init(t, u) ==
  Pg_reconnect([NoConn EXCEPT !.kind = "pg", !._last_use_time = t], u).s

\* --------------------------------------------------------- MysqlConnection
\* _execute(cursor, query, parameters): only OperationalError is caught
My_execute(s, o) ==
  LET e == DriverOutcome(s, o)
      x == DriverExecute(s, e, "single") IN
  IF e = "operr" THEN Result(close(x), "operr", 0, 1, s._db)
  ELSE Result(x, IF e = "ok" THEN "none" ELSE e, 0, 1, s._db)

RECURSIVE My_reconnect(_, _, _, _, _)
RECURSIVE My_ensure_connected(_, _, _, _, _)
RECURSIVE My_statement(_, _, _, _, _, _)

\* reconnect(): close(), MySQLdb.connect(autocommit=True), then
\* self.execute(self._db_init_command), which goes through _cursor() and
\* _ensure_connected() again.  io is what the init command does; fuel is
\* the nesting of reconnect still followed, after which the interpreter
\* raises RecursionError.
My_reconnect(s, t, u, io, fuel) ==
  LET c == close(s) IN
  IF fuel = 0 THEN Result(c, "recursion", 0, 0, 0)
  ELSE IF ~u THEN Result(c, "operr", 1, 0, 0)
  ELSE LET x == My_statement(Connected(c, TRUE), t, u, io, io, fuel - 1) IN
       Result(x.s, x.raised, 1 + x.connects, 0, 0)

\* _ensure_connected() at time t: _last_use_time is set only on the
\* reconnecting branch
My_ensure_connected(s, t, u, io, fuel) ==
  IF s._db = 0 \/ t - s._last_use_time > max_idle_time
  THEN My_reconnect([s EXCEPT !._last_use_time = t], t, u, io, fuel)
  ELSE Result(s, "none", 0, 0, 0)

\* query / get / execute / execute_rowcount / execute_lastrowid:
\* _cursor(), then _execute()
My_statement(s, t, u, io, o, fuel) ==
  LET r == My_ensure_connected(s, t, u, io, fuel) IN
  IF r.raised # "none" THEN r
  ELSE [My_execute(r.s, o) EXCEPT !.connects = r.connects]

\* executemany / executemany_lastrowid / executemany_rowcount
My_executemany(s, t, u, io, o) ==
  LET r == My_ensure_connected(s, t, u, io, MaxDepth) IN
  IF r.raised # "none" THEN r
  ELSE LET e == DriverOutcome(r.s, o) IN
       Result(DriverExecute(r.s, e, "batch"),
              IF e = "ok" THEN "none" ELSE e, r.connects, 1, r.s._db)

\* __init__: as for PostgresConnection
MysqlConnection_init(t, u, io) ==
  My_reconnect([NoConn EXCEPT !.kind = "my", !._last_use_time = t],
               t, u, io, MaxDepth).s

\* ---------------------------------------------------------------- registry
\* a registry keyed by one ident for every thread
shared_thread_ident(t) == 1

\* threading.current_thread().ident
current_thread_ident(t) == t

\* A lookup yields conn (the object), obj (its fields), new (it was
\* constructed by this call), cache (it goes into the class registry) and
\* raised ("none" or the error that left connect()).  n is the object a
\* constructor call would make, u whether the backend accepts connections.
Lookup(conn, obj, new, cache, raised) ==
  [conn |-> conn, obj |-> obj, new |-> new, cache |-> cache, raised |-> raised]

\* PostgresConnection.connect(), the part after the force check
Pg_connect_cached(reg, t, n, u) ==
  LET hit == reg[current_thread_ident(t)] IN
  IF hit # 0 THEN Lookup(hit, conns[hit], FALSE, FALSE, "none")
  ELSE Lookup(n, PostgresConnection_init(now, u), TRUE, TRUE, "none")

\* connect() that does not look at force
PostgresConnection_connect_noforce(reg, t, force, n, u) ==
  Pg_connect_cached(reg, t, n, u)

\* PostgresConnection.connect(force=...) with the configured options
PostgresConnection_connect(reg, t, force, n, u) ==
  IF force
  THEN Lookup(n, PostgresConnection_init(now, u), TRUE, FALSE, "none")
  ELSE Pg_connect_cached(reg, t, n, u)

\* MysqlConnection.connect(), the part after the force check: a new object
\* runs "SET NAMES ..." (outcome o) before it is stored, and an error of
\* that statement leaves connect() with nothing stored
My_connect_cached(reg, t, n, u, io, o) ==
  LET hit == reg[current_thread_ident(t)] IN
  IF hit # 0 THEN Lookup(hit, conns[hit], FALSE, FALSE, "none")
  ELSE LET x == My_statement(MysqlConnection_init(now, u, io),
                             now, u, io, o, MaxDepth) IN
       Lookup(n, x.s, TRUE, TRUE, x.raised)

\* MysqlConnection.connect(force=...) with the configured options
MysqlConnection_connect(reg, t, force, n, u, io, o) ==
  IF force
  THEN Lookup(n, MysqlConnection_init(now, u, io), TRUE, FALSE, "none")
  ELSE My_connect_cached(reg, t, n, u, io, o)

SchemaOf(k) == IF k = "pg" THEN pg_database ELSE mysql_schema
Available(k) == IF k = "pg" THEN pgsql_available ELSE mysql_available

\* The inputs of a call that the call reads: whether the backend accepts
\* connections, what the init command does and what the statement does are
\* drawn only when the call gets that far (needed), and fixed otherwise.
ReachInputs(needed) == IF needed THEN BOOLEAN ELSE {TRUE}
InitInputs(needed) == IF needed THEN InitOutcomes ELSE {"ok"}
StmtInputs(needed) == IF needed THEN Outcomes ELSE {"ok"}
ClassRegistry(k) ==
  IF k = "pg" THEN PostgresConnection_threads ELSE MysqlConnection_threads
\* db() by thread t constructs an object of backend k
DbConstructs(t, k) ==
  /\ Available(k) /\ databases[t][SchemaOf(k)] = 0
  /\ ClassRegistry(k)[current_thread_ident(t)] = 0

\* the objects and a class registry after lookup r by thread t
Constructed(r) == r.new /\ r.raised = "none"
ConnsAfter(cs, r) == IF Constructed(r) THEN [cs EXCEPT ![r.conn] = r.obj] ELSE cs
NextAfter(n, r) == IF Constructed(r) THEN n + 1 ELSE n
OpTimeAfter(lo, r) == IF Constructed(r) THEN [lo EXCEPT ![r.conn] = now] ELSE lo
ThreadsAfter(reg, t, r) ==
  IF r.cache /\ r.raised = "none"
  THEN [reg EXCEPT ![current_thread_ident(t)] = r.conn] ELSE reg
\* the bounds of the model allow the construction lookup r asks for
Fits(r) == r.new => (r.conn <= MaxConns /\ r.obj.opened <= MaxOpen)

\* the call that returned last
Ret(op, t, c, schema, force, outcome, reach, before, used, recent, connects, submitted) ==
  [op |-> op, thread |-> t, conn |-> c, schema |-> schema, force |-> force,
   outcome |-> outcome, reach |-> reach, before |-> before, used |-> used,
   recent |-> recent, connects |-> connects, submitted |-> submitted]

NoRet == Ret("none", 0, 0, NoSchema, FALSE, "none", TRUE, 0, 0, TRUE, 0, 0)

\* a registry call by thread t asking for schema, which returned object c
\* (outcome "ok") or raised (c = 0); reach: the backend was reachable
LookupRet(op, t, c, schema, force, outcome, reach) ==
  Ret(op, t, c, schema, force, outcome, reach, 0, 0, TRUE, 0, 0)

\* what thread t has been given: held and first after a non-forced lookup
\* asking for schema returned object c
Given(t, schema, c) ==
  /\ held' = [held EXCEPT ![t] = @ \cup {c}]
  /\ first' = IF schema \in Schemas /\ first[t][schema] = 0
              THEN [first EXCEPT ![t][schema] = c] ELSE first

\* cursor = self._cursor() and the finally clause of the statement
\* methods: a cursor is opened once _ensure_connected() has returned
\* (_cursor() returned, so the statement of r was submitted), and the
\* finally clause closes it whether _execute() returned or raised
cursor_close(n) == n - 1
\* a statement method that closes its cursor only when it returns
Scoped_onreturn(n, r) ==
  IF r.submitted > 0 /\ r.raised = "none" THEN cursor_close(n + 1)
  ELSE IF r.submitted > 0 THEN n + 1 ELSE n
Scoped(n, r) == IF r.submitted > 0 THEN cursor_close(n + 1) ELSE n

\* no call above the connection classes has returned
NoCall == [fn |-> "none", input |-> <<>>, output |-> <<>>]

\* the sql_diff table: it exists after CREATE TABLE, and rows holds its
\* rows in the order they were inserted
NoTable == [exists |-> FALSE, rows |-> <<>>]

Init ==
  /\ pgsql_available \in BOOLEAN
  /\ mysql_available \in BOOLEAN
  /\ live = [t \in Threads |-> t = 1]
  /\ databases = [t \in Threads |-> [s \in Schemas |-> 0]]
  /\ PostgresConnection_threads = [i \in Threads |-> 0]
  /\ MysqlConnection_threads = [i \in Threads |-> 0]
  /\ conns = [c \in ConnIds |-> NoConn]
  /\ nextConn = 1
  /\ now = 0
  /\ last_op_time = [c \in ConnIds |-> 0]
  /\ held = [t \in Threads |-> {}]
  /\ first = [t \in Threads |-> [s \in Schemas |-> 0]]
  /\ ret = NoRet
  /\ cursors = [c \in ConnIds |-> 0]
  /\ suspended = [c \in ConnIds |-> -1]
  /\ call = NoCall
  /\ ledger = [k \in Kinds |-> NoTable]
  /\ max_idle_time_of = [c \in ConnIds |-> max_idle_time]

\* a thread starts, with an ident no running thread has
ThreadStart(t) ==
  /\ ~live[t]
  /\ live' = [live EXCEPT ![t] = TRUE]
  /\ UNCHANGED <<cfgvars, regvars, conns, nextConn, now, last_op_time, held,
                 first, ret, cursors, appvars>>

\* a thread ends: its thread-local dbconns goes, the class registries stay
ThreadEnd(t) ==
  /\ live[t]
  /\ live' = [live EXCEPT ![t] = FALSE]
  /\ databases' = [databases EXCEPT ![t] = [s \in Schemas |-> 0]]
  /\ held' = [held EXCEPT ![t] = {}]
  /\ first' = [first EXCEPT ![t] = [s \in Schemas |-> 0]]
  /\ UNCHANGED <<cfgvars, PostgresConnection_threads, MysqlConnection_threads,
                 conns, nextConn, now, last_op_time, ret, cursors, appvars>>

\* thread t calls PostgresConnection.connect(force=f) or
\* MysqlConnection.connect(force=f)
Connect(t, k, f) ==
  /\ live[t] /\ Available(k)
  /\ \E u \in ReachInputs(f \/ ClassRegistry(k)[current_thread_ident(t)] = 0),
        io \in InitInputs(k = "my" /\ (f \/ MysqlConnection_threads[current_thread_ident(t)] = 0)),
        o \in StmtInputs(k = "my" /\ ~f /\ MysqlConnection_threads[current_thread_ident(t)] = 0) :
       \E r \in {IF k = "pg"
                 THEN PostgresConnection_connect(PostgresConnection_threads, t, f, nextConn, u)
                 ELSE MysqlConnection_connect(MysqlConnection_threads, t, f, nextConn, u, io, o)} :
       /\ Fits(r)
       /\ conns' = ConnsAfter(conns, r)
       /\ nextConn' = NextAfter(nextConn, r)
       /\ last_op_time' = OpTimeAfter(last_op_time, r)
       /\ IF k = "pg"
          THEN /\ PostgresConnection_threads' = ThreadsAfter(PostgresConnection_threads, t, r)
               /\ UNCHANGED MysqlConnection_threads
          ELSE /\ MysqlConnection_threads' = ThreadsAfter(MysqlConnection_threads, t, r)
               /\ UNCHANGED PostgresConnection_threads
       /\ IF r.raised = "none"
          THEN /\ ret' = LookupRet("connect", t, r.conn, SchemaOf(k), f, "ok", u)
               /\ IF f THEN UNCHANGED <<held, first>>
                  ELSE Given(t, SchemaOf(k), r.conn)
          ELSE /\ ret' = LookupRet("connect", t, 0, SchemaOf(k), f, r.raised, u)
               /\ UNCHANGED <<held, first>>
  /\ UNCHANGED <<cfgvars, live, databases, now, cursors, appvars>>

\* db(), lines 63-65: the key looked up in the dictionary d, given the
\* value us of use_schema at that point
Resolve(d, us) ==
  LET keys == {s \in Schemas : d[s] # 0} IN
  IF us = NoSchema /\ Cardinality(keys) = 1
  THEN CHOOSE s \in keys : TRUE
  ELSE us

\* db(use_schema=s) called by thread t, lines 53-65, as what it leaves
\* behind and returns.  r1 and r2 are the results of the calls of
\* PostgresConnection.connect() (line 57) and MysqlConnection.connect()
\* (line 60), read only when the call is made; um: MySQL accepts
\* connections.
db(t, s, r1, r2, um) ==
  LET d0 == databases[t]
      doPg == pgsql_available /\ d0[pg_database] = 0
      doMy == mysql_available /\ d0[mysql_schema] = 0
      \* lines 56-58
      d1 == IF doPg THEN [d0 EXCEPT ![pg_database] = r1.conn] ELSE d0
      us1 == IF doPg THEN pg_database ELSE s
      c1 == IF doPg THEN ConnsAfter(conns, r1) ELSE conns
      n1 == IF doPg THEN NextAfter(nextConn, r1) ELSE nextConn
      l1 == IF doPg THEN OpTimeAfter(last_op_time, r1) ELSE last_op_time
      \* lines 59-61
      failed == doMy /\ r2.raised # "none"
      d2 == IF doMy /\ ~failed THEN [d1 EXCEPT ![mysql_schema] = r2.conn] ELSE d1
      us2 == IF doMy /\ ~failed THEN mysql_schema ELSE us1
      \* lines 63-65
      key == Resolve(d2, us2)
      found == key \in Schemas /\ d2[key] # 0
  IN
  [fits |-> (doPg => Fits(r1)) /\ (doMy => Fits(r2)),
   conns |-> IF doMy THEN ConnsAfter(c1, r2) ELSE c1,
   nextConn |-> IF doMy THEN NextAfter(n1, r2) ELSE n1,
   last_op_time |-> IF doMy THEN OpTimeAfter(l1, r2) ELSE l1,
   PostgresConnection_threads |->
     IF doPg THEN ThreadsAfter(PostgresConnection_threads, t, r1)
     ELSE PostgresConnection_threads,
   MysqlConnection_threads |->
     IF doMy THEN ThreadsAfter(MysqlConnection_threads, t, r2)
     ELSE MysqlConnection_threads,
   databases |-> [databases EXCEPT ![t] = d2],
   outcome |-> IF failed THEN r2.raised ELSE IF found THEN "ok" ELSE "KeyError",
   conn |-> IF ~failed /\ found THEN d2[key] ELSE 0,
   reach |-> IF failed THEN um ELSE TRUE]

\* what a call of db() leaves in the registry and the objects
DbDone(d) ==
  /\ d.fits
  /\ nextConn' = d.nextConn
  /\ PostgresConnection_threads' = d.PostgresConnection_threads
  /\ MysqlConnection_threads' = d.MysqlConnection_threads
  /\ databases' = d.databases

\* thread t calls db(use_schema=s).  Every statement of db() and of the
\* connect() it calls reads and writes the caller's thread-local dictionary
\* and the caller's own entry of a class registry only, so the call is one
\* step.  up and um: the backends accept connections.
Db(t, s) ==
  /\ live[t]
  /\ \E up \in ReachInputs(DbConstructs(t, "pg")),
        um \in ReachInputs(DbConstructs(t, "my")),
        io \in InitInputs(DbConstructs(t, "my")),
        o \in StmtInputs(DbConstructs(t, "my")) :
       \E r1 \in {PostgresConnection_connect(PostgresConnection_threads, t, FALSE, nextConn, up)} :
       \E r2 \in {MysqlConnection_connect(MysqlConnection_threads, t, FALSE,
                     IF pgsql_available /\ databases[t][pg_database] = 0
                     THEN NextAfter(nextConn, r1) ELSE nextConn, um, io, o)} :
       \E d \in {db(t, s, r1, r2, um)} :
       /\ DbDone(d)
       /\ conns' = d.conns
       /\ last_op_time' = d.last_op_time
       /\ ret' = LookupRet("db", t, d.conn, s, FALSE, d.outcome, d.reach)
       /\ IF d.outcome = "ok" THEN Given(t, s, d.conn)
          ELSE UNCHANGED <<held, first>>
  /\ UNCHANGED <<cfgvars, live, now, cursors, appvars>>

\* ------------------------------------------------- connection operations
\* _ensure_connected() of object c would reconnect now
NeedsReconnect(c) ==
  conns[c]._db = 0 \/ now - conns[c]._last_use_time > max_idle_time

\* what a call on object c leaves behind: the fields, the time of the
\* operation (a call that got as far as submitting its statement) and the
\* record of the call
Operated(c, op, r, u) ==
  /\ r.s.opened <= MaxOpen
  /\ conns' = [conns EXCEPT ![c] = r.s]
  /\ cursors' = [cursors EXCEPT ![c] = Scoped(@, r)]
  /\ last_op_time' = IF r.submitted > 0
                     THEN [last_op_time EXCEPT ![c] = now] ELSE last_op_time
  /\ ret' = Ret(op, 0, c, NoSchema, FALSE,
                IF r.raised = "none" THEN "ok" ELSE r.raised, u,
                conns[c]._db, r.used, now - last_op_time[c] <= max_idle_time,
                r.connects, r.submitted)

\* query, get, execute, execute_rowcount or execute_lastrowid on object c
Statement(c, op) ==
  /\ conns[c].kind # "none"
  /\ \E u \in ReachInputs(NeedsReconnect(c)),
        io \in InitInputs(conns[c].kind = "my" /\ NeedsReconnect(c)),
        o \in Outcomes :
       \E r \in {IF conns[c].kind = "pg"
                 THEN Pg_statement(conns[c], now, u, o)
                 ELSE My_statement(conns[c], now, u, io, o, MaxDepth)} :
         Operated(c, op, r, u)
  /\ UNCHANGED <<cfgvars, live, regvars, nextConn, now, held, first, appvars>>

\* executemany, executemany_lastrowid or executemany_rowcount on object c
ExecuteMany(c) ==
  /\ conns[c].kind # "none"
  /\ \E u \in ReachInputs(NeedsReconnect(c)),
        io \in InitInputs(conns[c].kind = "my" /\ NeedsReconnect(c)),
        o \in Outcomes :
       \E r \in {IF conns[c].kind = "pg"
                 THEN Pg_executemany(conns[c], now, u, o)
                 ELSE My_executemany(conns[c], now, u, io, o)} :
         Operated(c, "executemany", r, u)
  /\ UNCHANGED <<cfgvars, live, regvars, nextConn, now, held, first, appvars>>

\* close() on object c
Close(c) ==
  /\ conns[c].kind # "none"
  /\ conns' = [conns EXCEPT ![c] = close(conns[c])]
  /\ ret' = Ret("close", 0, c, NoSchema, FALSE, "ok", TRUE, conns[c]._db, 0,
                now - last_op_time[c] <= max_idle_time, 0, 0)
  /\ UNCHANGED <<cfgvars, live, regvars, nextConn, now, last_op_time, held, first,
                 cursors, appvars>>

\* reconnect() called on object c from outside
Reconnect(c) ==
  /\ conns[c].kind # "none"
  /\ \E u \in BOOLEAN, io \in InitInputs(conns[c].kind = "my") :
       \E r \in {IF conns[c].kind = "pg"
                 THEN Pg_reconnect(conns[c], u)
                 ELSE My_reconnect(conns[c], now, u, io, MaxDepth)} :
         /\ r.s.opened <= MaxOpen
         /\ conns' = [conns EXCEPT ![c] = r.s]
         /\ ret' = Ret("reconnect", 0, c, NoSchema, FALSE,
                       IF r.raised = "none" THEN "ok" ELSE r.raised, u,
                       conns[c]._db, 0, now - last_op_time[c] <= max_idle_time,
                       r.connects, 0)
         \* MysqlConnection.reconnect() runs its init command through
         \* execute() once the driver has connected
         /\ last_op_time' = IF conns[c].kind = "my" /\ u
                            THEN [last_op_time EXCEPT ![c] = now]
                            ELSE last_op_time
         /\ UNCHANGED cursors
  /\ UNCHANGED <<cfgvars, live, regvars, nextConn, now, held, first, appvars>>

\* time passes
Tick ==
  /\ now < MaxTime
  /\ now' = now + 1
  /\ UNCHANGED <<cfgvars, live, regvars, conns, nextConn, last_op_time, held,
                 first, ret, cursors, appvars>>

NextReg ==
  \/ \E t \in Threads : ThreadStart(t)
  \/ \E t \in Threads : ThreadEnd(t)
  \/ \E t \in Threads, k \in Kinds, f \in BOOLEAN : Connect(t, k, f)
  \/ \E t \in Threads, s \in SchemaArgs : Db(t, s)

SpecReg == Init /\ [][NextReg]_vars

\* The life of one connection object: a running thread obtains it from
\* connect(), cached or forced, and it is operated while time passes.  The
\* objects share no field, so one object shows what the operations do.
NoObjectYet == \A c \in ConnIds : conns[c].kind = "none"

NextConn ==
  \/ \E t \in Threads, k \in Kinds, f \in BOOLEAN : NoObjectYet /\ Connect(t, k, f)
  \/ \E c \in ConnIds, op \in StatementOps : Statement(c, op)
  \/ \E c \in ConnIds : ExecuteMany(c)
  \/ \E c \in ConnIds : Close(c)
  \/ \E c \in ConnIds : Reconnect(c)
  \/ Tick

SpecConn == Init /\ [][NextConn]_vars

\* ------------------------------------------- calls and what they return
\* SQL text is a sequence of words; str.startswith compares the first
\* word as written
Statements ==
  {<<"INSERT", "INTO", "t", "RETURNING", "id">>, <<"INSERT", "INTO", "t">>,
   <<"insert", "INTO", "t", "RETURNING", "id">>,
   <<"UPDATE", "t">>, <<"DELETE", "FROM", "t">>, <<"CREATE", "TABLE", "t">>}
startswith(sql, w) == Len(sql) > 0 /\ sql[1] = w
\* the statement is an INSERT for the server, which reads keywords in any case
IsInsert(sql) == Len(sql) > 0 /\ sql[1] \in {"INSERT", "insert"}
\* the statement hands rows back to the cursor
HasReturning(sql) == \E i \in 1..Len(sql) : sql[i] = "RETURNING"
\* the identifier the server generates for an inserted row
GeneratedId == MaxRows + 1

\* A value handed to the caller is a sequence: <<>> is None, <<v>> is v.
\* What a method does after _execute() returned is the record of what it
\* raises ("none": it returns) and the value.
Returns(v) == [raised |-> "none", value |-> <<v>>]
ReturnsNone == [raised |-> "none", value |-> <<>>]
Raises(e) == [raised |-> e, value |-> <<>>]

\* PostgresConnection.execute_lastrowid, lines 169-172: rc is
\* cursor.rowcount; cursor.fetchone() raises when the statement handed no
\* rows back
Pg_execute_lastrowid(sql, rc) ==
  IF rc > 0
  THEN IF HasReturning(sql) THEN Returns(GeneratedId) ELSE Raises("ProgrammingError")
  ELSE ReturnsNone

\* PostgresConnection.execute_rowcount, line 181
Pg_execute_rowcount(sql, rc) == Returns(rc)

\* execute() that never asks for the generated identifier
PostgresConnection_execute_rowcount(sql, rc) == Pg_execute_rowcount(sql, rc)

\* PostgresConnection.execute
PostgresConnection_execute(sql, rc) ==
  IF startswith(sql, "INSERT") THEN Pg_execute_lastrowid(sql, rc)
  ELSE Pg_execute_rowcount(sql, rc)

\* cursor.lastrowid of MySQLdb: the identifier generated by the statement,
\* 0 when it generated none
My_lastrowid(sql, rc) == IF IsInsert(sql) /\ rc > 0 THEN GeneratedId ELSE 0

\* MysqlConnection.execute: execute_lastrowid whatever the statement is
MysqlConnection_execute(sql, rc) == Returns(My_lastrowid(sql, rc))

\* a call on object c whose _execute() gave r and which then did v
CallResult(r, v) == IF r.raised = "none" THEN [r EXCEPT !.raised = v.raised] ELSE r
CallValue(r, v) == IF r.raised = "none" THEN v.value ELSE <<>>

\* execute(sql) on object c; the statement affects rc rows
Execute(c, sql, rc) ==
  /\ conns[c].kind # "none"
  /\ \E u \in ReachInputs(NeedsReconnect(c)),
        io \in InitInputs(conns[c].kind = "my" /\ NeedsReconnect(c)),
        o \in Outcomes :
       \E r \in {IF conns[c].kind = "pg"
                 THEN Pg_statement(conns[c], now, u, o)
                 ELSE My_statement(conns[c], now, u, io, o, MaxDepth)} :
       \E v \in {IF conns[c].kind = "pg" THEN PostgresConnection_execute(sql, rc)
                 ELSE MysqlConnection_execute(sql, rc)} :
         /\ Operated(c, "execute", CallResult(r, v), u)
         /\ call' = [fn |-> "execute", input |-> [sql |-> sql, rc |-> rc],
                     output |-> CallValue(r, v)]
  /\ UNCHANGED <<cfgvars, live, regvars, nextConn, now, held, first, suspended, ledger, max_idle_time_of>>

\* the rows of a result set, numbered in the order the cursor yields them,
\* each built by the class cls
RowTypes == {"Row", "cls"}
Rows(n, cls) == [i \in 1..n |-> [row |-> i, type |-> cls]]

\* query(sql, cls=cls) after _execute() returned, where cls is "Row" when
\* the caller gave none
Pg_query(n, cls) == Rows(n, cls)
My_query(n, cls) == Rows(n, cls)

\* get() that hands out the first row of several
PostgresConnection_get_first(n, cls) ==
  LET rows == Pg_query(n, cls) IN
  IF Len(rows) = 0 THEN ReturnsNone ELSE Returns(rows[1])

\* PostgresConnection.get, lines 150-156: the keyword arguments go to query()
PostgresConnection_get(n, cls) ==
  LET rows == Pg_query(n, cls) IN
  IF Len(rows) = 0 THEN ReturnsNone
  ELSE IF Len(rows) > 1 THEN Raises("Exception")
  ELSE Returns(rows[1])

\* MysqlConnection.get, lines 342-351: query() is called without cls, and
\* the one row, a mapping with at least one column, goes through cls
MysqlConnection_get(n, cls) ==
  LET rows == My_query(n, "Row") IN
  IF Len(rows) = 0 THEN ReturnsNone
  ELSE IF Len(rows) > 1 THEN Raises("Exception")
  ELSE Returns(IF cls # "Row" THEN [rows[1] EXCEPT !.type = cls] ELSE rows[1])

\* get(sql, cls=cls) on object c; the query yields n rows
Get(c, n, cls) ==
  /\ conns[c].kind # "none"
  /\ \E u \in ReachInputs(NeedsReconnect(c)),
        io \in InitInputs(conns[c].kind = "my" /\ NeedsReconnect(c)),
        o \in Outcomes :
       \E r \in {IF conns[c].kind = "pg"
                 THEN Pg_statement(conns[c], now, u, o)
                 ELSE My_statement(conns[c], now, u, io, o, MaxDepth)} :
       \E v \in {IF conns[c].kind = "pg" THEN PostgresConnection_get(n, cls)
                 ELSE MysqlConnection_get(n, cls)} :
         /\ Operated(c, "get", CallResult(r, v), u)
         /\ call' = [fn |-> "get", input |-> [rows |-> n, cls |-> cls],
                     output |-> CallValue(r, v)]
  /\ UNCHANGED <<cfgvars, live, regvars, nextConn, now, held, first, suspended, ledger, max_idle_time_of>>

\* MysqlConnection.iter is a generator: nothing runs until the caller asks
\* for the first row.  Then lines 313-316 run; when the query yields rows
\* the generator hands the first to the caller and stays suspended at the
\* yield, inside the try block, with its cursor open.
IterFirst(c, n) ==
  /\ conns[c].kind = "my" /\ suspended[c] = -1
  /\ \E u \in ReachInputs(NeedsReconnect(c)),
        io \in InitInputs(NeedsReconnect(c)),
        o \in Outcomes :
       \E r \in {My_statement(conns[c], now, u, io, o, MaxDepth)} :
         LET yields == r.raised = "none" /\ n > 0 IN
         /\ r.s.opened <= MaxOpen
         /\ conns' = [conns EXCEPT ![c] = r.s]
         /\ last_op_time' = IF r.submitted > 0
                            THEN [last_op_time EXCEPT ![c] = now] ELSE last_op_time
         /\ cursors' = [cursors EXCEPT ![c] = IF yields THEN @ + 1 ELSE Scoped(@, r)]
         /\ suspended' = [suspended EXCEPT ![c] = IF yields THEN n - 1 ELSE -1]
         /\ ret' = Ret("iter", 0, c, NoSchema, FALSE,
                       IF r.raised # "none" THEN r.raised
                       ELSE IF yields THEN "ok" ELSE "StopIteration", u,
                       conns[c]._db, r.used, now - last_op_time[c] <= max_idle_time,
                       r.connects, r.submitted)
         /\ call' = [fn |-> "iter", input |-> [rows |-> n],
                     output |-> IF yields THEN <<[row |-> 1, type |-> "Row"]>> ELSE <<>>]
  /\ UNCHANGED <<cfgvars, live, regvars, nextConn, now, held, first, ledger, max_idle_time_of>>

\* the caller asks the suspended generator for the next row: another row
\* is handed out, or the loop ends, or fetching fails (f), and in both
\* last cases the finally clause closes the cursor
IterResume(c, f) ==
  /\ suspended[c] >= 0
  /\ LET yields == f = "ok" /\ suspended[c] > 0 IN
     /\ suspended' = [suspended EXCEPT ![c] = IF yields THEN @ - 1 ELSE -1]
     /\ cursors' = [cursors EXCEPT ![c] = IF yields THEN @ ELSE cursor_close(@)]
     /\ ret' = Ret("iter", 0, c, NoSchema, FALSE,
                   IF f # "ok" THEN f ELSE IF yields THEN "ok" ELSE "StopIteration",
                   TRUE, conns[c]._db, conns[c]._db,
                   now - last_op_time[c] <= max_idle_time, 0, 0)
     /\ call' = [fn |-> "iter", input |-> [rows |-> suspended[c]],
                 output |-> IF yields THEN <<[row |-> 1, type |-> "Row"]>> ELSE <<>>]
  /\ UNCHANGED <<cfgvars, live, regvars, conns, nextConn, now, last_op_time,
                 held, first, ledger, max_idle_time_of>>

\* the caller closes or drops the suspended generator: GeneratorExit is
\* raised at the yield and the finally clause closes the cursor
IterClose(c) ==
  /\ suspended[c] >= 0
  /\ suspended' = [suspended EXCEPT ![c] = -1]
  /\ cursors' = [cursors EXCEPT ![c] = cursor_close(@)]
  /\ ret' = Ret("iter_close", 0, c, NoSchema, FALSE, "ok", TRUE, conns[c]._db, 0,
                now - last_op_time[c] <= max_idle_time, 0, 0)
  /\ UNCHANGED <<cfgvars, live, regvars, conns, nextConn, now, last_op_time,
                 held, first, call, ledger, max_idle_time_of>>

\* The calls on one connection object and the values they hand back.
NextCall ==
  \/ \E t \in Threads, k \in Kinds, f \in BOOLEAN : NoObjectYet /\ Connect(t, k, f)
  \/ \E c \in ConnIds, sql \in Statements, rc \in 0..MaxRows : Execute(c, sql, rc)
  \/ \E c \in ConnIds, n \in 0..MaxRows, cls \in RowTypes : Get(c, n, cls)
  \/ \E c \in ConnIds, n \in 0..MaxRows : IterFirst(c, n)
  \/ \E c \in ConnIds, f \in InitOutcomes : IterResume(c, f)
  \/ \E c \in ConnIds : IterClose(c)
  \/ \E c \in ConnIds : Close(c)

SpecCall == Init /\ [][NextCall]_vars

\* ------------------------------------------------- Row and SqlDiff
\* A statement method called on the object that db() returned: the object
\* obj as db() left it, at time now
StatementOn(obj, u, io, o) ==
  IF obj.kind = "pg" THEN Pg_statement(obj, now, u, o)
  ELSE My_statement(obj, now, u, io, o, MaxDepth)
ObjNeedsReconnect(obj) ==
  obj._db = 0 \/ now - obj._last_use_time > max_idle_time

\* NULL in applied_dttm
NULL == -1

\* A name is the sequence of its character codes (ASCII), which is how the
\* server compares text: "0010_a", "0005_b", "0020_c"
Name_0010_a == <<48, 48, 49, 48, 95, 97>>
Name_0005_b == <<48, 48, 48, 53, 95, 98>>
Name_0020_c == <<48, 48, 50, 48, 95, 99>>
Names == {Name_0010_a, Name_0005_b, Name_0020_c}

\* SUBSTRING(name from 5 for 3): the characters at positions 5, 6 and 7,
\* as far as the name has them
SUBSTRING(name, from, for) ==
  SubSeq(name, from, IF from + for - 1 < Len(name) THEN from + for - 1 ELSE Len(name))

\* text comparison a <= b by character codes
RECURSIVE TextLeq(_, _)
TextLeq(a, b) ==
  IF Len(a) = 0 THEN TRUE
  ELSE IF Len(b) = 0 THEN FALSE
  ELSE IF a[1] # b[1] THEN a[1] < b[1]
  ELSE TextLeq(Tail(a), Tail(b))

\* ORDER BY ... ASC, where keys[i] is the value of the ordering expression
\* for rows[i]: every arrangement of the rows in which the keys do not
\* decrease (the server orders equal keys as it likes)
OrderBy(rows, keys) ==
  LET n == Len(rows)
      perms == {p \in [1..n -> 1..n] : \A i, j \in 1..n : i # j => p[i] # p[j]}
  IN {[i \in 1..n |-> rows[p[i]]] : p \in
        {q \in perms : \A i \in 1..n, j \in 1..n :
                         i < j => TextLeq(keys[q[i]], keys[q[j]])}}

\* WHERE applied_dttm IS NULL
UnappliedRows(tbl) == SelectSeq(tbl.rows, LAMBDA r : r.applied_dttm = NULL)

\* What the server does with the statement of a request on the sql_diff
\* table tbl when nothing else goes wrong (o): the outcome, the table
\* afterwards, the rows handed back and the number of rows affected.
ServerResult(outcome, tbl, rows, rc) ==
  [outcome |-> outcome, table |-> tbl, rows |-> rows, rc |-> rc]
ServerFails(tbl, o) == {ServerResult(IF o = "ok" THEN "dberr" ELSE o, tbl, <<>>, 0)}

\* CREATE TABLE IF NOT EXISTS sql_diff (... PRIMARY KEY (sql_diff_name))
Server_create_table(tbl, o) ==
  IF o # "ok" THEN ServerFails(tbl, o)
  ELSE {ServerResult("ok", [tbl EXCEPT !.exists = TRUE], <<>>, 0)}

\* INSERT into a table that has no key on the name
Server_insert_nokey(tbl, name, o) ==
  IF o # "ok" \/ ~tbl.exists THEN ServerFails(tbl, o)
  ELSE {ServerResult("ok",
          [tbl EXCEPT !.rows = Append(@, [sql_diff_name |-> name, applied_dttm |-> NULL])],
          <<>>, 1)}

\* INSERT that replaces the row of a name the table has
Server_insert_replace(tbl, name, o) ==
  IF o # "ok" \/ ~tbl.exists THEN ServerFails(tbl, o)
  ELSE {ServerResult("ok",
          [tbl EXCEPT !.rows =
             Append(SelectSeq(@, LAMBDA r : r.sql_diff_name # name),
                    [sql_diff_name |-> name, applied_dttm |-> NULL])],
          <<>>, 1)}

\* INSERT INTO sql_diff (sql_diff_name) VALUES (%s) RETURNING sql_diff_id:
\* the primary key refuses a name the table has (IntegrityError)
Server_insert(tbl, name, o) ==
  IF o # "ok" \/ ~tbl.exists
     \/ \E i \in 1..Len(tbl.rows) : tbl.rows[i].sql_diff_name = name
  THEN ServerFails(tbl, o)
  ELSE {ServerResult("ok",
          [tbl EXCEPT !.rows = Append(@, [sql_diff_name |-> name, applied_dttm |-> NULL])],
          <<>>, 1)}

\* UPDATE sql_diff SET applied_dttm=NOW() WHERE sql_diff_name=%s
Server_mark_applied(tbl, name, o) ==
  IF o # "ok" \/ ~tbl.exists THEN ServerFails(tbl, o)
  ELSE {ServerResult("ok",
          [tbl EXCEPT !.rows = [i \in 1..Len(@) |->
             IF @[i].sql_diff_name = name THEN [@[i] EXCEPT !.applied_dttm = now]
             ELSE @[i]]],
          <<>>, Len(SelectSeq(tbl.rows, LAMBDA r : r.sql_diff_name = name)))}

\* SELECT * FROM sql_diff, in table order
Server_scan(tbl, o) ==
  IF o # "ok" \/ ~tbl.exists THEN ServerFails(tbl, o)
  ELSE {ServerResult("ok", tbl, tbl.rows, Len(tbl.rows))}

\* SELECT that orders by the whole name
Server_scan_unapplied_byname(tbl, o) ==
  IF o # "ok" \/ ~tbl.exists THEN ServerFails(tbl, o)
  ELSE {ServerResult("ok", tbl, rows, Len(rows)) :
          rows \in OrderBy(UnappliedRows(tbl),
                           [i \in 1..Len(UnappliedRows(tbl)) |->
                              UnappliedRows(tbl)[i].sql_diff_name])}

\* SELECT * FROM sql_diff WHERE applied_dttm IS NULL
\*   ORDER BY SUBSTRING(sql_diff_name from 5 for 3) ASC
Server_scan_unapplied(tbl, o) ==
  IF o # "ok" \/ ~tbl.exists THEN ServerFails(tbl, o)
  ELSE {ServerResult("ok", tbl, rows, Len(rows)) :
          rows \in OrderBy(UnappliedRows(tbl),
                           [i \in 1..Len(UnappliedRows(tbl)) |->
                              SUBSTRING(UnappliedRows(tbl)[i].sql_diff_name, 5, 3)])}

\* UPDATE %s SET %s WHERE %s on another table: a statement with an empty
\* SET or WHERE clause is refused, another one affects some rows
Server_update(tbl, req, o) ==
  IF o # "ok" \/ Len(req.set_clause) = 0 \/ Len(req.where_clause) = 0
  THEN ServerFails(tbl, o)
  ELSE {ServerResult("ok", tbl, <<>>, rc) : rc \in 0..MaxRows}

\* the statements the methods send
Sql_create_table == <<"CREATE", "TABLE", "sql_diff">>
Sql_insert == <<"INSERT", "INTO", "sql_diff", "RETURNING", "sql_diff_id">>
Sql_mark_applied == <<"UPDATE", "sql_diff">>

\* A request is what a method of Row or SqlDiff sends through db(): method
\* is the connection method it calls, sql the statement.
Server(req, tbl, o) ==
  CASE req.fn = "create_table" -> Server_create_table(tbl, o)
    [] req.fn = "insert" -> Server_insert(tbl, req.name, o)
    [] req.fn = "mark_applied" -> Server_mark_applied(tbl, req.name, o)
    [] req.fn = "scan" -> Server_scan(tbl, o)
    [] req.fn = "scan_unapplied" -> Server_scan_unapplied(tbl, o)
    [] req.fn = "update_columns" -> Server_update(tbl, req, o)

\* the value of the connection method of the request on an object of
\* backend k, after _execute() returned and the server did sv
MethodValue(req, k, sv) ==
  CASE req.method = "query" ->
         [raised |-> "none",
          value |-> IF k = "pg" THEN Pg_query(Len(sv.rows), "cls")
                    ELSE My_query(Len(sv.rows), "cls")]
    [] req.method = "execute" ->
         IF k = "pg" THEN PostgresConnection_execute(req.sql, sv.rc)
         ELSE MysqlConnection_execute(req.sql, sv.rc)
    [] req.method = "execute_rowcount" -> Returns(sv.rc)

\* db().method(sql, ...) by thread t: db() with no schema, lines 53-65,
\* then the statement on the object it returned.  output is what the
\* method hands back: the rows of a query as the server gave them, else
\* the value.
OrmCall(t, req) ==
  /\ live[t]
  /\ \E up \in ReachInputs(DbConstructs(t, "pg")),
        um \in ReachInputs(DbConstructs(t, "my")),
        io \in InitInputs(DbConstructs(t, "my")),
        o \in StmtInputs(DbConstructs(t, "my")) :
       \E r1 \in {PostgresConnection_connect(PostgresConnection_threads, t, FALSE, nextConn, up)} :
       \E r2 \in {MysqlConnection_connect(MysqlConnection_threads, t, FALSE,
                     IF pgsql_available /\ databases[t][pg_database] = 0
                     THEN NextAfter(nextConn, r1) ELSE nextConn, um, io, o)} :
       \E d \in {db(t, NoSchema, r1, r2, um)} :
       /\ DbDone(d)
       /\ IF d.outcome # "ok"
          THEN /\ conns' = d.conns
               /\ last_op_time' = d.last_op_time
               /\ ret' = LookupRet(req.fn, t, 0, NoSchema, FALSE, d.outcome, d.reach)
               /\ call' = [fn |-> req.fn, input |-> req, output |-> <<>>]
               /\ UNCHANGED <<cursors, ledger, held, first>>
          ELSE \E u \in ReachInputs(ObjNeedsReconnect(d.conns[d.conn])),
                  io2 \in InitInputs(d.conns[d.conn].kind = "my"
                                      /\ ObjNeedsReconnect(d.conns[d.conn])),
                  o2 \in Outcomes :
               \E sv \in Server(req, ledger[d.conns[d.conn].kind], o2) :
               \E r0 \in {StatementOn(d.conns[d.conn], u, io2, sv.outcome)} :
               \E v \in {MethodValue(req, d.conns[d.conn].kind, sv)} :
               \E r \in {CallResult(r0, v)} :
                 /\ r.s.opened <= MaxOpen
                 /\ conns' = [d.conns EXCEPT ![d.conn] = r.s]
                 /\ cursors' = [cursors EXCEPT ![d.conn] = Scoped(@, r)]
                 /\ last_op_time' = IF r.submitted > 0
                                    THEN [d.last_op_time EXCEPT ![d.conn] = now]
                                    ELSE d.last_op_time
                 \* the statement ran, and on PostgresConnection was committed
                 /\ ledger' = IF r0.raised = "none"
                              THEN [ledger EXCEPT ![d.conns[d.conn].kind] = sv.table]
                              ELSE ledger
                 /\ ret' = LookupRet(req.fn, t, d.conn, NoSchema, FALSE,
                                     IF r.raised = "none" THEN "ok" ELSE r.raised, u)
                 /\ call' = [fn |-> req.fn, input |-> req,
                             output |-> IF r.raised # "none" THEN <<>>
                                        ELSE IF req.method = "query" THEN sv.rows
                                        ELSE v.value]
                 /\ Given(t, NoSchema, d.conn)
  /\ UNCHANGED <<cfgvars, live, now, suspended, max_idle_time_of>>

\* SqlDiff.create_table()
SqlDiff_create_table(t) ==
  OrmCall(t, [fn |-> "create_table", method |-> "execute", sql |-> Sql_create_table])

\* SqlDiff.insert(sql_diff_name)
SqlDiff_insert(t, name) ==
  /\ Len(ledger["pg"].rows) < MaxLedger /\ Len(ledger["my"].rows) < MaxLedger
  /\ OrmCall(t, [fn |-> "insert", method |-> "execute", sql |-> Sql_insert,
                 name |-> name])

\* SqlDiff.mark_applied(sql_diff_name)
SqlDiff_mark_applied(t, name) ==
  OrmCall(t, [fn |-> "mark_applied", method |-> "execute", sql |-> Sql_mark_applied,
              name |-> name])

\* SqlDiff.scan()
SqlDiff_scan(t) == OrmCall(t, [fn |-> "scan", method |-> "query"])

\* SqlDiff.scan_unapplied()
SqlDiff_scan_unapplied(t) == OrmCall(t, [fn |-> "scan_unapplied", method |-> "query"])

\* A changeset is a dict in insertion order: a sequence of <<column, value>>
\* with no column twice.  A value is a Literal (a str subclass) or a plain
\* value; v is its text.
Literal(text) == [Literal |-> TRUE, v |-> text]
Plain(v) == [Literal |-> FALSE, v |-> v]
isinstance_Literal(value) == value.Literal
ColumnNames == {"name", "updated_at"}
ColumnValues == {Plain("foo"), Plain("NOW()"), Literal("NOW()")}
Changesets ==
  UNION {{cs \in [1..n -> ColumnNames \X ColumnValues] :
            \A i, j \in 1..n : i # j => cs[i][1] # cs[j][1]} : n \in 0..MaxColumns}
Wheres == {<<>>, <<<<"id", Plain("5")>>>>, <<<<"id", Literal("LAST_INSERT_ID()")>>>>}

\* '%s' % key, for a key that is a str
Format(key) == key
\* the str '%s'
Placeholder == Plain("%s")

\* the loop of kva_split, lines 487-493, over the items left
RECURSIVE kva_loop(_, _, _, _)
kva_loop(items, keys, values, args) ==
  IF Len(items) = 0 THEN <<keys, values, args>>
  ELSE LET key == Head(items)[1]
           value == Head(items)[2] IN
       IF isinstance_Literal(value)
       THEN kva_loop(Tail(items), Append(keys, Format(key)), Append(values, value), args)
       ELSE kva_loop(Tail(items), Append(keys, Format(key)),
                     Append(values, Placeholder), Append(args, value))

\* kva_split that binds every value
kva_split_bindall(columns) ==
  LET k == kva_loop(columns, <<>>, <<>>, <<>>) IN
  <<k[1], k[2], [i \in 1..Len(columns) |-> columns[i][2]]>>

\* Row.kva_split(columns): keys, values, args
kva_split(columns) == kva_loop(columns, <<>>, <<>>, <<>>)

\* ['%s=%s' % (key, value) for key, value in zip(keys, values)]
Clause(keys, values) == [i \in 1..Len(keys) |-> <<keys[i], values[i]>>]

\* update_columns, lines 512-521: the statement and its arguments
UpdateRequest(columns, where) ==
  LET set == kva_split(columns)
      whr == kva_split(where) IN
  [fn |-> "update_columns", method |-> "execute_rowcount",
   sql |-> <<"UPDATE", "t">>, columns |-> columns, where |-> where,
   set_clause |-> Clause(set[1], set[2]),
   where_clause |-> Clause(whr[1], whr[2]),
   args |-> set[3] \o whr[3]]

\* update_columns that sends the statement whatever columns holds
Row_update_columns_send(t, columns, where) == OrmCall(t, UpdateRequest(columns, where))

\* Row.update_columns(columns, where) called by thread t
Row_update_columns(t, columns, where) ==
  IF Len(columns) = 0
  THEN /\ live[t]
       /\ ret' = LookupRet("update_columns", t, 0, NoSchema, FALSE, "ok", TRUE)
       /\ call' = [fn |-> "update_columns", input |-> UpdateRequest(columns, where),
                   output |-> <<>>]
       /\ UNCHANGED <<cfgvars, live, regvars, conns, nextConn, now, last_op_time,
                      held, first, cursors, suspended, ledger, max_idle_time_of>>
  ELSE OrmCall(t, UpdateRequest(columns, where))

\* Row.kva_split(columns) called by itself
Row_kva_split(columns) ==
  /\ ret' = LookupRet("kva_split", 0, 0, NoSchema, FALSE, "ok", TRUE)
  /\ call' = [fn |-> "kva_split", input |-> columns, output |-> kva_split(columns)]
  /\ UNCHANGED <<cfgvars, live, regvars, conns, nextConn, now, last_op_time,
                 held, first, cursors, suspended, ledger, max_idle_time_of>>

\* The column engine used by one thread.
NextOrm ==
  \/ \E columns \in Changesets : Row_kva_split(columns)
  \/ \E t \in Threads, columns \in Changesets, where \in Wheres :
       Row_update_columns(t, columns, where)

SpecOrm == Init /\ [][NextOrm]_vars

\* time passes while the ledger is in use
LedgerTick == now < MaxLedgerTime /\ Tick

\* The migration ledger used by one thread.
NextLedger ==
  \/ \E t \in Threads : SqlDiff_create_table(t)
  \/ \E t \in Threads, name \in Names : SqlDiff_insert(t, name)
  \/ \E t \in Threads, name \in Names : SqlDiff_mark_applied(t, name)
  \/ \E t \in Threads : SqlDiff_scan(t)
  \/ \E t \in Threads : SqlDiff_scan_unapplied(t)
  \/ LedgerTick

SpecLedger == Init /\ [][NextLedger]_vars

\* ------------------------------------ reconnect while the clock runs
\* A MysqlConnection constructed with its own max_idle_time, and
\* MySQLdb.connect taking time.  The methods are those of the section
\* MysqlConnection above, which are the case of the default max_idle_time
\* and of a connect that takes no time; here
\*   m      self.max_idle_time
\*   t      time.time() when the method is entered
\*   ds     ds[i] is the time the i-th MySQLdb.connect of the call takes
\*   fuel   the nesting of reconnect still followed, as above
\* and a result carries the clock at which the method is left.
MaxIdleTimes == 0..max_idle_time
ConnectTimes == [1..MaxDepth -> 0..MaxConnectTime]

ResultAt(r, at) ==
  [s |-> r.s, raised |-> r.raised, connects |-> r.connects,
   submitted |-> r.submitted, used |-> r.used, at |-> at]

RECURSIVE MysqlConnection_reconnect(_, _, _, _, _, _, _)
RECURSIVE MysqlConnection_ensure_connected(_, _, _, _, _, _, _)
RECURSIVE MysqlConnection_execute_lastrowid(_, _, _, _, _, _, _, _)

\* reconnect(): close(), MySQLdb.connect(autocommit=True, ...), then
\* self.execute(self._db_init_command)
MysqlConnection_reconnect(s, m, t, ds, u, io, fuel) ==
  LET c == close(s)
      t1 == t + ds[MaxDepth - fuel + 1] IN
  IF fuel = 0 THEN ResultAt(Result(c, "recursion", 0, 0, 0), t)
  ELSE IF ~u THEN ResultAt(Result(c, "operr", 1, 0, 0), t1)
  ELSE LET x == MysqlConnection_execute_lastrowid(Connected(c, TRUE), m, t1,
                                                  ds, u, io, io, fuel - 1) IN
       ResultAt(Result(x.s, x.raised, 1 + x.connects, 0, 0), x.at)

\* _ensure_connected(): the test reads time.time() and self.max_idle_time
MysqlConnection_ensure_connected(s, m, t, ds, u, io, fuel) ==
  IF s._db = 0 \/ t - s._last_use_time > m
  THEN MysqlConnection_reconnect([s EXCEPT !._last_use_time = t],
                                 m, t, ds, u, io, fuel)
  ELSE ResultAt(Result(s, "none", 0, 0, 0), t)

\* execute() is execute_lastrowid(): _cursor(), which is
\* _ensure_connected() and self._db.cursor(), then _execute()
MysqlConnection_execute_lastrowid(s, m, t, ds, u, io, o, fuel) ==
  LET r == MysqlConnection_ensure_connected(s, m, t, ds, u, io, fuel) IN
  IF r.raised # "none" THEN r
  ELSE ResultAt([My_execute(r.s, o) EXCEPT !.connects = r.connects], r.at)

\* what a call on object c that took until r.at leaves behind
OperatedAt(c, op, r, u) ==
  /\ r.s.opened <= MaxOpen
  /\ r.at <= MaxTime
  /\ conns' = [conns EXCEPT ![c] = r.s]
  /\ cursors' = [cursors EXCEPT ![c] = Scoped(@, r)]
  /\ now' = r.at
  /\ last_op_time' = IF r.submitted > 0 \/ (u /\ r.connects > 0)
                     THEN [last_op_time EXCEPT ![c] = r.at] ELSE last_op_time
  /\ ret' = Ret(op, 0, c, NoSchema, FALSE,
                IF r.raised = "none" THEN "ok" ELSE r.raised, u,
                conns[c]._db, r.used,
                now - last_op_time[c] <= max_idle_time_of[c],
                r.connects, r.submitted)

\* MysqlConnection(host, database, max_idle_time=m): _db = None,
\* _last_use_time = time.time(), then reconnect() with every exception
\* logged and dropped
MysqlConnection_init_idle(m) ==
  /\ NoObjectYet /\ mysql_available
  /\ \E ds \in ConnectTimes, u \in BOOLEAN, io \in InitOutcomes :
       \E r \in {MysqlConnection_reconnect(
                   [NoConn EXCEPT !.kind = "my", !._last_use_time = now],
                   m, now, ds, u, io, MaxDepth)} :
         /\ r.s.opened <= MaxOpen
         /\ r.at <= MaxTime
         /\ conns' = [conns EXCEPT ![nextConn] = r.s]
         /\ nextConn' = nextConn + 1
         /\ max_idle_time_of' = [max_idle_time_of EXCEPT ![nextConn] = m]
         /\ now' = r.at
         /\ last_op_time' = [last_op_time EXCEPT ![nextConn] = r.at]
         /\ ret' = Ret("__init__", 0, nextConn, NoSchema, TRUE, "ok", u,
                       0, 0, TRUE, r.connects, 0)
  /\ UNCHANGED <<cfgvars, live, regvars, held, first, cursors, suspended,
                 call, ledger>>

\* execute() on object c
ExecuteAt(c) ==
  /\ conns[c].kind = "my"
  /\ \E ds \in ConnectTimes, u \in BOOLEAN, io \in InitOutcomes, o \in Outcomes :
       \E r \in {MysqlConnection_execute_lastrowid(
                   conns[c], max_idle_time_of[c], now, ds, u, io, o, MaxDepth)} :
         OperatedAt(c, "execute", r, u)
  /\ UNCHANGED <<cfgvars, live, regvars, nextConn, held, first, appvars>>

\* reconnect() called on object c from outside
ReconnectAt(c) ==
  /\ conns[c].kind = "my"
  /\ \E ds \in ConnectTimes, u \in BOOLEAN, io \in InitOutcomes :
       \E r \in {MysqlConnection_reconnect(
                   conns[c], max_idle_time_of[c], now, ds, u, io, MaxDepth)} :
         OperatedAt(c, "reconnect", r, u)
  /\ UNCHANGED <<cfgvars, live, regvars, nextConn, held, first, appvars>>

NextIdle ==
  \/ \E m \in MaxIdleTimes : MysqlConnection_init_idle(m)
  \/ \E c \in ConnIds : ExecuteAt(c)
  \/ \E c \in ConnIds : ReconnectAt(c)
  \/ \E c \in ConnIds : Close(c)
  \/ Tick

SpecIdle == Init /\ [][NextIdle]_vars

\* ------------------------------------------------------------------ claims
LookupOps == {"connect", "db"}
CursorOps == StatementOps \cup {"executemany"}
KindOf(schema) == IF schema = pg_database THEN "pg" ELSE "my"
\* the step is a call that returned
Returned == ret' # ret

\* C1: two threads that are alive at the same time never hold the same
\* connection object from non-forced lookups (db(), connect()).
C1_PerContextIsolation ==
  \A t1 \in Threads, t2 \in Threads :
    (t1 # t2 /\ live[t1] /\ live[t2]) => held[t1] \cap held[t2] = {}

\* two running threads each hold an object of the same backend
C1_Witness ==
  \E t1 \in Threads, t2 \in Threads :
    /\ t1 # t2 /\ live[t1] /\ live[t2]
    /\ \E c1 \in held[t1], c2 \in held[t2] : conns[c1].kind = conns[c2].kind

\* C2: every non-forced lookup a thread makes for a schema returns the
\* object that the thread's first lookup for that schema returned.
C2_CacheUniqueness ==
  [][(Returned /\ ret'.op \in LookupOps /\ ~ret'.force /\ ret'.outcome = "ok"
        /\ ret'.schema \in Schemas)
     => ret'.conn = first'[ret'.thread][ret'.schema]]_vars

\* C3: connect(force=True) returns an object that did not exist before the
\* call, which is in no registry, and the call changes no registry.
C3_ForcedLookup ==
  [][(Returned /\ ret'.force)
     => /\ ret'.outcome = "ok"
        /\ ret'.conn = nextConn /\ conns[ret'.conn] = NoConn
        /\ conns'[ret'.conn].kind = KindOf(ret'.schema)
        /\ \A t \in Threads :
             /\ PostgresConnection_threads'[t] # ret'.conn
             /\ MysqlConnection_threads'[t] # ret'.conn
             /\ \A s \in Schemas : databases'[t][s] # ret'.conn
        /\ UNCHANGED regvars]_vars

\* a forced connect() returned while the caller has a cached object of that
\* backend
C3_Witness ==
  /\ ret.force /\ ret.outcome = "ok"
  /\ ClassRegistry(KindOf(ret.schema))[ret.thread] # 0

\* C4: db() with no schema returns only when exactly one schema is cached
\* for the caller after the call, and then returns that schema's object.
C4_DefaultSchema ==
  [][(Returned /\ ret'.op = "db" /\ ret'.schema = NoSchema /\ ret'.outcome = "ok")
     => /\ Cardinality({s \in Schemas : databases'[ret'.thread][s] # 0}) = 1
        /\ \E s \in Schemas : databases'[ret'.thread][s] = ret'.conn]_vars

\* C5: db(use_schema=X) that returns, returns an object bound to schema X.
C5_ExplicitSchema ==
  (ret.op = "db" /\ ret.schema \in Schemas /\ ret.outcome = "ok")
    => conns[ret.conn].kind = KindOf(ret.schema)

\* C6: a statement that follows the previous operation on its object by
\* more than max_idle_time runs on a new handle, and one that follows it by
\* at most max_idle_time, the handle being open, runs on that same handle.
C6_IdleReconnect ==
  ret.op \in CursorOps =>
    /\ (~ret.recent /\ ret.submitted > 0) => ret.used # ret.before
    /\ (ret.recent /\ ret.before # 0) => ret.used = ret.before

\* C7: connect() or db() called while the backend is unreachable does not
\* raise: it returns an object whose handle is None, cached unless forced.
C7_DeferredConnect ==
  (ret.op \in LookupOps /\ ~ret.reach) =>
    /\ ret.outcome = "ok"
    /\ conns[ret.conn]._db = 0
    /\ ~ret.force => ClassRegistry(KindOf(ret.schema))[ret.thread] = ret.conn

\* C8: when the statement of query, get or execute fails with an
\* OperationalError, the call ends with the handle None after submitting
\* the statement once, and the next statement call on the object reconnects
\* and runs on a new handle.
ConnectivityFailure(r) ==
  r.op \in {"query", "get", "execute"} /\ r.outcome = "operr" /\ r.submitted > 0

C8_ConnectivityError ==
  [][/\ (Returned /\ ConnectivityFailure(ret'))
          => (conns'[ret'.conn]._db = 0 /\ ret'.submitted = 1)
     /\ (Returned /\ ConnectivityFailure(ret) /\ ret'.op \in CursorOps
           /\ ret'.conn = ret.conn)
          => /\ ret'.before = 0 /\ ret'.connects >= 1
             /\ ret'.submitted > 0 => (ret'.used # 0 /\ ret'.used # ret.used)]_vars

\* a statement has just failed with an OperationalError on an open handle
C8_Witness ==
  ConnectivityFailure(ret) /\ ret.used # 0 /\ conns[ret.conn]._db = 0

\* C9: when a statement fails with a database error that is not an
\* OperationalError, the call ends with the same open handle and with no
\* transaction left open or aborted on it.
C9_StatementError ==
  (ret.op \in CursorOps /\ ret.outcome = "dberr") =>
    /\ ret.used # 0 /\ conns[ret.conn]._db = ret.used
    /\ conns[ret.conn].txn = "none"

\* C10: no object ever holds a transaction opened by a non-batch statement,
\* and after a non-batch statement that returned no transaction is open.
C10_AutocommitPerCall ==
  /\ \A c \in ConnIds : conns[c].txn # "single"
  /\ (ret.op \in StatementOps /\ ret.outcome = "ok") => conns[ret.conn].txn = "none"

\* a non-batch statement has just returned on an open handle that the
\* driver does not commit by itself
C10_Witness ==
  /\ ret.op \in StatementOps /\ ret.outcome = "ok" /\ ret.submitted = 1
  /\ ~conns[ret.conn].autocommit /\ conns[ret.conn]._db # 0

InsertShaped(sql) == startswith(sql, "INSERT")
ExecuteReturned == ret.op = "execute" /\ call.fn = "execute" /\ ret.outcome = "ok"

\* C12 as stated: on both backends execute(sql) that returns hands back
\* the generated identifier when the statement is INSERT-shaped and has
\* inserted rows, and the number of affected rows for any other statement.
C12_ExecuteDualReturn ==
  ExecuteReturned =>
    /\ (InsertShaped(call.input.sql) /\ call.input.rc > 0)
         => call.output = <<GeneratedId>>
    /\ ~InsertShaped(call.input.sql) => call.output = <<call.input.rc>>

\* C12: execute(sql) that returns hands back, on PostgresConnection, the
\* generated identifier when the statement is INSERT-shaped and has inserted
\* rows, None when it is INSERT-shaped and has inserted none, and the number
\* of affected rows for any other statement; on MysqlConnection it hands
\* back the driver's last inserted identifier for every statement, which is
\* the generated identifier after an INSERT that inserted rows and 0 after
\* any other statement.
C12_ExecuteReturnByBackend ==
  ExecuteReturned =>
    IF conns[ret.conn].kind = "pg"
    THEN /\ (InsertShaped(call.input.sql) /\ call.input.rc > 0)
              => call.output = <<GeneratedId>>
         /\ (InsertShaped(call.input.sql) /\ call.input.rc = 0)
              => call.output = <<>>
         /\ ~InsertShaped(call.input.sql) => call.output = <<call.input.rc>>
    ELSE call.output =
           IF IsInsert(call.input.sql) /\ call.input.rc > 0
           THEN <<GeneratedId>> ELSE <<0>>

\* execute() of a statement that is no INSERT and affected rows has just
\* returned on a MysqlConnection
C12_Witness ==
  /\ ExecuteReturned /\ call.input.rc > 0
  /\ conns[ret.conn].kind = "my" /\ ~IsInsert(call.input.sql)

LedgerOf(r) == ledger[conns[r.conn].kind]
LedgerReturned(fn) == ret.op = fn /\ call.fn = fn /\ ret.outcome = "ok"
NamesIn(rows) == {rows[i].sql_diff_name : i \in 1..Len(rows)}
NamesOf(rows) == [i \in 1..Len(rows) |-> rows[i].sql_diff_name]
Unapplied(rows) == SelectSeq(rows, LAMBDA r : r.applied_dttm = NULL)
\* scan_unapplied() handed back exactly the rows with a NULL applied_dttm
ExactlyUnapplied ==
  /\ Len(call.output) = Len(Unapplied(LedgerOf(ret).rows))
  /\ \A i \in 1..Len(call.output) :
       \E j \in 1..Len(LedgerOf(ret).rows) :
         LedgerOf(ret).rows[j] = call.output[i] /\ call.output[i].applied_dttm = NULL
  /\ \A i, j \in 1..Len(call.output) : i # j => call.output[i] # call.output[j]

\* C14 as stated: scan_unapplied() hands back exactly the unapplied
\* entries, and "0010_a", "0005_b", "0020_c", all unapplied, come back in
\* the order "0005_b", "0010_a", "0020_c".
C14_UnappliedOrdering ==
  LedgerReturned("scan_unapplied") =>
    /\ ExactlyUnapplied
    /\ NamesIn(call.output) = Names
         => NamesOf(call.output) = <<Name_0005_b, Name_0010_a, Name_0020_c>>

\* C14: scan_unapplied() hands back exactly the unapplied entries, in
\* ascending order of the characters at positions 5 to 7 of the name, so
\* that "0010_a", "0005_b", "0020_c", all unapplied, come back in the order
\* "0010_a", "0005_b", "0020_c".
C14_UnappliedOrderingByPosition ==
  LedgerReturned("scan_unapplied") =>
    /\ ExactlyUnapplied
    /\ \A i, j \in 1..Len(call.output) :
         i < j => TextLeq(SUBSTRING(call.output[i].sql_diff_name, 5, 3),
                          SUBSTRING(call.output[j].sql_diff_name, 5, 3))
    /\ NamesIn(call.output) = Names
         => NamesOf(call.output) = <<Name_0010_a, Name_0005_b, Name_0020_c>>

\* scan_unapplied() has just handed back the three entries, recorded in
\* another order than it hands them back
C14_Witness ==
  /\ LedgerReturned("scan_unapplied") /\ NamesIn(call.output) = Names
  /\ NamesOf(LedgerOf(ret).rows) # NamesOf(call.output)

\* C15: an entry is recorded with a NULL applied_dttm, its applied_dttm
\* leaves NULL only in a mark_applied() call for its name, an entry that is
\* applied stays in the table and stays applied, and scan_unapplied() hands
\* back no applied entry.
C15_LedgerOneWay ==
  [][\A k \in Kinds :
       /\ \A i \in 1..Len(ledger'[k].rows) :
            IF i <= Len(ledger[k].rows)
            THEN /\ ledger'[k].rows[i].sql_diff_name = ledger[k].rows[i].sql_diff_name
                 /\ ledger[k].rows[i].applied_dttm # NULL
                      => ledger'[k].rows[i].applied_dttm # NULL
                 /\ (ledger[k].rows[i].applied_dttm = NULL
                      /\ ledger'[k].rows[i].applied_dttm # NULL)
                      => (call'.fn = "mark_applied" /\ ret'.op = "mark_applied"
                          /\ call'.input.name = ledger[k].rows[i].sql_diff_name)
            ELSE ledger'[k].rows[i].applied_dttm = NULL
       /\ Len(ledger'[k].rows) >= Len(ledger[k].rows)
       /\ (call'.fn = "scan_unapplied" /\ ret'.op = "scan_unapplied"
           /\ ret'.outcome = "ok" /\ conns'[ret'.conn].kind = k)
           => \A i \in 1..Len(call'.output) :
                \A j \in 1..Len(ledger'[k].rows) :
                  ledger'[k].rows[j].sql_diff_name = call'.output[i].sql_diff_name
                    => ledger'[k].rows[j].applied_dttm = NULL]_vars

\* scan_unapplied() has just returned entries while another entry of the
\* table is applied
C15_Witness ==
  /\ LedgerReturned("scan_unapplied") /\ Len(call.output) > 0
  /\ \E j \in 1..Len(LedgerOf(ret).rows) : LedgerOf(ret).rows[j].applied_dttm # NULL

\* C16: SqlDiff.insert(name) leaves the table as it is when it has an entry
\* of that name, adds one entry of that name with a NULL applied_dttm when
\* it has none and the call returns, and no table ever has two entries of
\* one name.
C16_InsertIfNotExists ==
  [][/\ \A k \in Kinds :
          \A i, j \in 1..Len(ledger'[k].rows) :
            i # j => ledger'[k].rows[i].sql_diff_name # ledger'[k].rows[j].sql_diff_name
     /\ ((ret' # ret \/ call' # call) /\ call'.fn = "insert" /\ ret'.op = "insert")
          => \A k \in Kinds :
               IF ret'.outcome = "ok" /\ conns'[ret'.conn].kind = k
                  /\ call'.input.name \notin NamesIn(ledger[k].rows)
               THEN ledger'[k].rows =
                      Append(ledger[k].rows,
                             [sql_diff_name |-> call'.input.name, applied_dttm |-> NULL])
               ELSE call'.input.name \in NamesIn(ledger[k].rows)
                      => ledger'[k] = ledger[k]]_vars

\* insert() of a name that the table has as an applied entry has just been
\* refused
C16_Witness ==
  /\ ret.op = "insert" /\ call.fn = "insert" /\ ret.outcome = "dberr" /\ ret.conn # 0
  /\ \E j \in 1..Len(LedgerOf(ret).rows) :
       /\ LedgerOf(ret).rows[j].sql_diff_name = call.input.name
       /\ LedgerOf(ret).rows[j].applied_dttm # NULL

\* the values of a changeset, in insertion order
ValuesOf(cs) == [i \in 1..Len(cs) |-> cs[i][2]]
\* how many of the first i fragments are placeholders
PlaceholdersUpTo(frags, i) == Cardinality({j \in 1..i : frags[j] = Placeholder})
\* keys, fragments and bound values belong to the items as C17 says
SplitOf(items, keys, frags, args) ==
  /\ Len(keys) = Len(items) /\ Len(frags) = Len(items)
  /\ \A i \in 1..Len(items) :
       /\ keys[i] = items[i][1]
       /\ frags[i] = IF isinstance_Literal(items[i][2]) THEN items[i][2] ELSE Placeholder
       /\ frags[i] = Placeholder => args[PlaceholdersUpTo(frags, i)] = items[i][2]
  /\ args = SelectSeq(ValuesOf(items), LAMBDA v : ~isinstance_Literal(v))
  /\ PlaceholdersUpTo(frags, Len(frags)) = Len(args)
  /\ \A j \in 1..Len(args) : ~isinstance_Literal(args[j])

\* C17: kva_split(columns) hands back the columns in insertion order, for
\* each the Literal itself or a placeholder, and as bound values exactly the
\* values that are no Literal, in insertion order: as many as there are
\* placeholders, the k-th for the k-th placeholder; and the statement of
\* update_columns has its SET and WHERE fragments and its arguments so.
C17_ColumnSplit ==
  /\ (ret.op = "kva_split" /\ call.fn = "kva_split")
       => SplitOf(call.input, call.output[1], call.output[2], call.output[3])
  /\ (ret.op = "update_columns" /\ call.fn = "update_columns")
       => SplitOf(call.input.columns \o call.input.where,
                  [i \in 1..Len(call.input.set_clause) |-> call.input.set_clause[i][1]]
                    \o [i \in 1..Len(call.input.where_clause) |-> call.input.where_clause[i][1]],
                  [i \in 1..Len(call.input.set_clause) |-> call.input.set_clause[i][2]]
                    \o [i \in 1..Len(call.input.where_clause) |-> call.input.where_clause[i][2]],
                  call.input.args)

\* kva_split has just split a changeset whose first value is a Literal and
\* whose second is a plain value
C17_Witness ==
  /\ ret.op = "kva_split" /\ call.fn = "kva_split" /\ Len(call.input) = 2
  /\ isinstance_Literal(call.input[1][2]) /\ ~isinstance_Literal(call.input[2][2])
  /\ Len(call.output[3]) = 1

\* C18: update_columns with an empty changeset returns None and changes
\* nothing: no registry, no connection object, no cursor, no table.
C18_EmptyUpdateNoOp ==
  [][((ret' # ret \/ call' # call) /\ ret'.op = "update_columns"
        /\ call'.fn = "update_columns" /\ Len(call'.input.columns) = 0)
     => /\ ret'.outcome = "ok" /\ call'.output = <<>>
        /\ UNCHANGED <<regvars, conns, nextConn, last_op_time, cursors, ledger,
                       held, first, suspended, now>>]_vars

\* update_columns with an empty changeset and a where mapping has just
\* returned to a thread for which no connection is cached
C18_Witness ==
  /\ ret.op = "update_columns" /\ call.fn = "update_columns"
  /\ Len(call.input.columns) = 0 /\ Len(call.input.where) > 0
  /\ ret.outcome = "ok" /\ \A sc \in Schemas : databases[ret.thread][sc] = 0

\* C19: when a thread ends, no class registry holds an object under its
\* ident and the objects held there are closed; a thread that starts finds
\* no object under its ident.
C19_ClosedAtContextEnd ==
  [][\A t \in Threads :
       /\ (live[t] /\ ~live'[t]) =>
            \A k \in Kinds :
              /\ ClassRegistry(k)[current_thread_ident(t)] # 0
                   => conns'[ClassRegistry(k)[current_thread_ident(t)]]._db = 0
              /\ PostgresConnection_threads'[current_thread_ident(t)] = 0
              /\ MysqlConnection_threads'[current_thread_ident(t)] = 0
       /\ (~live[t] /\ live'[t]) =>
            /\ PostgresConnection_threads'[current_thread_ident(t)] = 0
            /\ MysqlConnection_threads'[current_thread_ident(t)] = 0]_vars

\* C20: when executemany has returned, the handle has no transaction open:
\* what the batch changed is committed.
C20_BatchedWritesCommitted ==
  (ret.op = "executemany" /\ ret.outcome = "ok") => conns[ret.conn].txn = "none"

\* C21: reconnect terminates.  On a MysqlConnection every operation, and
\* every direct reconnect(), that finds the backend accepting connections
\* returns after at most two physical connects and without exhausting the
\* nesting of reconnect -> execute -> _cursor -> _ensure_connected ->
\* reconnect, whatever max_idle_time the object has and however long
\* MySQLdb.connect takes.
C21_ReconnectTerminates ==
  (/\ ret.op \in {"__init__", "execute", "reconnect"}
   /\ ret.reach
   /\ conns[ret.conn].kind = "my")
  => (ret.connects <= 2 /\ ret.outcome # "recursion")

====
